---- MODULE Spec2Model ----
(***************************************************************************)
(* A model of dl.py, the h5ai directory-listing downloader: the response   *)
(* cache (get_source_using_curl), the completion ledger                    *)
(* (load_downloaded_urls / download_complete), the listing crawler         *)
(* (crawl_h5ai), the downloader (download_urls), the list-file reader      *)
(* (get_urls_from_file) and the batch script under __main__.               *)
(*                                                                         *)
(* A Python str is a sequence of one-character strings.  None is the empty *)
(* sequence where the code can only produce None or a non-empty string.    *)
(***************************************************************************)
EXTENDS Integers, Sequences, FiniteSets, TLC

(***************************************************************************)
(* Bounds of the model.                                                    *)
(***************************************************************************)
\* the largest max_depth a crawl is started with
MaxDepth == 2
\* the largest number of anchors on one listing page
MaxAnchors == 2
\* the largest number of lines of a list file
MaxLines == 2
\* the number of runs of the script
MaxRuns == 2
\* the number of network calls after which the call counter stops counting
MaxCalls == 2

(***************************************************************************)
(* str operations.                                                         *)
(***************************************************************************)
\* s[i:i+len(p)] == p, with i counted from 1
HasAt(s, i, p) ==
    /\ i >= 1
    /\ i + Len(p) - 1 <= Len(s)
    /\ \A k \in 1..Len(p) : s[i + k - 1] = p[k]

\* s.startswith(p)
startswith(s, p) == HasAt(s, 1, p)

\* s.endswith(p)
endswith(s, p) == Len(p) <= Len(s) /\ HasAt(s, Len(s) - Len(p) + 1, p)

\* s[i:], with i counted from 1
From(s, i) == IF i > Len(s) THEN << >> ELSE SubSeq(s, i, Len(s))

\* s.replace(old, new) for a non-empty old: every non-overlapping occurrence,
\* leftmost first (v is the value of s, computed once)
RECURSIVE replace(_, _, _)
replace(s, old, new) ==
    CHOOSE r \in {IF v = << >> THEN << >>
                  ELSE IF HasAt(v, 1, old)
                       THEN new \o replace(From(v, Len(old) + 1), old, new)
                  ELSE <<v[1]>> \o replace(Tail(v), old, new) : v \in {s}} : TRUE

\* the position of the first occurrence of c in s at or after i, 0 when none
RECURSIVE IndexFrom(_, _, _)
IndexFrom(s, c, i) ==
    IF i > Len(s) THEN 0
    ELSE IF s[i] = c THEN i
    ELSE IndexFrom(s, c, i + 1)

\* s.split(sep) for a one-character sep
RECURSIVE split(_, _)
split(s, sep) ==
    LET k == IndexFrom(s, sep, 1)
    IN  IF k = 0 THEN <<s>>
        ELSE <<SubSeq(s, 1, k - 1)>> \o split(From(s, k + 1), sep)

(***************************************************************************)
(* The literals of the code.                                               *)
(***************************************************************************)
HTTP  == <<"h", "t", "t", "p", ":", "/", "/">>
HTTPS == <<"h", "t", "t", "p", "s", ":", "/", "/">>
SLASH == <<"/">>
UNDERSCORE == <<"_">>
DOT == <<".">>
DOTDOT == <<".", ".">>
None == << >>

\* the characters of the class [a-zA-Z0-9.-] that the model's strings use
HostChars == {"a", "b", "f", "g", "h", "p", "s", "t", "x",
              "0", "1", "2", "5", ".", "-"}

(***************************************************************************)
(* url_to_file_name                                                        *)
(***************************************************************************)
url_to_file_name(url) ==
    replace(replace(replace(url, HTTP, << >>), HTTPS, << >>), SLASH, UNDERSCORE)

(***************************************************************************)
(* get_target_domain: re.search of (http[s]?://[a-zA-Z0-9.-]+), the        *)
(* leftmost match with the longest run of host characters; None when the   *)
(* pattern matches nowhere.                                                *)
(***************************************************************************)
\* the position of the first host character of a match starting at i, else 0
HostStart(url, i) ==
    IF HasAt(url, i, HTTPS) THEN i + Len(HTTPS)
    ELSE IF HasAt(url, i, HTTP) THEN i + Len(HTTP)
    ELSE 0

MatchesAt(url, i) ==
    LET h == HostStart(url, i)
    IN  h # 0 /\ h <= Len(url) /\ url[h] \in HostChars

\* the last position of the run of host characters that starts at h
RECURSIVE HostEnd(_, _)
HostEnd(url, h) ==
    IF h + 1 <= Len(url) /\ url[h + 1] \in HostChars THEN HostEnd(url, h + 1)
    ELSE h

get_target_domain(url) ==
    LET starts == {i \in 1..Len(url) : MatchesAt(url, i)}
    IN  IF starts = {} THEN None
        ELSE LET i == CHOOSE j \in starts : \A k \in starts : j <= k
             IN  SubSeq(url, i, HostEnd(url, HostStart(url, i)))

(***************************************************************************)
(* State.                                                                  *)
(***************************************************************************)
VARIABLES
    url_cache,               \* the directory url_cache: file name -> pickled html
    downloaded_db,           \* the directory downloaded_db: file name -> pickled list
    files,                   \* the local files written by wget: path -> "full" or "partial"
    site,                    \* the remote server: URL -> the html it serves
    down,                    \* the URLs on which curl currently exits non-zero
    download_completed,      \* the global list of the running process
    pc,                      \* the position of the running process in the script
    to_work_urls,            \* local of the script
    d_url,                   \* local of the script
    total_downloadable_urls, \* local of the script
    target_download_domain,  \* local of the script
    w,                       \* loop position: the work item being crawled
    d,                       \* loop position: the item of d_url being downloaded
    k,                       \* loop position: the URL of that item
    list_file,               \* the list file given with -f
    default_depth,           \* the depth given with -d
    last,                    \* the last call: its arguments and what it did
    curl_calls,              \* per URL, how often a call of Fetch ran curl on it
    first_html,              \* per URL, the html returned by its first call of
                             \* Fetch when that call found no cache entry
    transfers,               \* the runs of wget so far: crawl root, URL, exit
                             \* code, number of the run of the script
    runs,                    \* the number of runs of the script started so far
    stack,                   \* the active calls of inner_crawl of a crawl that
                             \* is run step by step, the innermost last
    downloadable_urls        \* the list downloadable_urls of that crawl

\* the running process
script == <<download_completed, pc, to_work_urls, d_url,
            total_downloadable_urls, target_download_domain, w, d, k, runs>>
\* the ledger directory and the downloaded files
disk == <<downloaded_db, files>>
\* the list file and the command line
inputs == <<list_file, default_depth>>
\* the records kept of past calls
history == <<curl_calls, first_html, transfers>>
\* the crawl that is run step by step
walk == <<stack, downloadable_urls>>

vars == <<url_cache, downloaded_db, files, site, down, download_completed, pc,
          to_work_urls, d_url, total_downloadable_urls, target_download_domain,
          w, d, k, list_file, default_depth, last, curl_calls, first_html,
          transfers, runs, stack, downloadable_urls>>

(***************************************************************************)
(* html: the sequence of the elements of a page.  An element is an anchor  *)
(* with an href, an anchor without one, or some other tag.  The empty      *)
(* sequence is the empty string.                                           *)
(***************************************************************************)
A(href) == [tag |-> "a", has_href |-> TRUE, href |-> href]
ANoHref == [tag |-> "a", has_href |-> FALSE, href |-> << >>]
HtmlTag == [tag |-> "html", has_href |-> FALSE, href |-> << >>]
EmptyHtml == << >>

\* soup.find_all('a')
RECURSIVE find_all_a(_)
find_all_a(html) ==
    IF html = << >> THEN << >>
    ELSE IF html[1].tag = "a" THEN <<html[1]>> \o find_all_a(Tail(html))
    ELSE find_all_a(Tail(html))

(***************************************************************************)
(* get_source_using_curl.  subprocess.check_output(['curl', url]) raises   *)
(* when curl exits non-zero, which the bare except turns into ''.          *)
(***************************************************************************)
CurlFails(url) == url \in down \/ url \notin DOMAIN site

\* get_source_using_curl without the pickle.dump of lines 25-26: the html is
\* returned and not stored
get_source_using_curl_no_store(cache, url) ==
    LET file_name == url_to_file_name(url)
    IN  IF file_name \in DOMAIN cache
        THEN [html |-> cache[file_name], cache |-> cache, curled |-> FALSE]
        ELSE [html |-> IF CurlFails(url) THEN EmptyHtml ELSE site[url],
              cache |-> cache, curled |-> TRUE]

\* get_source_using_curl that stores only what curl printed: after a failure
\* nothing is written
get_source_using_curl_failure_not_stored(cache, url) ==
    LET file_name == url_to_file_name(url)
    IN  IF file_name \in DOMAIN cache
        THEN [html |-> cache[file_name], cache |-> cache, curled |-> FALSE]
        ELSE IF CurlFails(url)
             THEN [html |-> EmptyHtml, cache |-> cache, curled |-> TRUE]
             ELSE [html |-> site[url],
                   cache |-> [f \in DOMAIN cache \cup {file_name} |->
                                 IF f = file_name THEN site[url] ELSE cache[f]],
                   curled |-> TRUE]

\* the result of get_source_using_curl(url) with the cache directory `cache`:
\* the html returned, the cache directory afterwards, whether curl was run
get_source_using_curl(cache, url) ==
    LET file_name == url_to_file_name(url)
    IN  IF file_name \in DOMAIN cache
        THEN [html |-> cache[file_name], cache |-> cache, curled |-> FALSE]
        ELSE LET html == IF CurlFails(url) THEN EmptyHtml ELSE site[url]
             IN  [html |-> html,
                  cache |-> [f \in DOMAIN cache \cup {file_name} |->
                                IF f = file_name THEN html ELSE cache[f]],
                  curled |-> TRUE]

(***************************************************************************)
(* crawl_h5ai.  The state threaded through the recursion: the cache        *)
(* directory, the list downloadable_urls, the exception raised (if any),   *)
(* and a record of the calls of get_source_using_curl made so far (the URL *)
(* and the recursion depth of each, and whether it ran curl).              *)
(***************************************************************************)
RECURSIVE inner_crawl(_, _, _, _, _)
RECURSIVE crawl_links(_, _, _, _, _)

\* inner_crawl with the depth test off by one: a listing one level below
\* max_depth is still fetched
inner_crawl_one_deeper(st, target_domain, url, recursion, max_depth) ==
    IF recursion > max_depth + 1 THEN st
    ELSE LET r == get_source_using_curl(st.cache, url)
             st1 == [st EXCEPT !.cache = r.cache,
                               !.visited = Append(@, [url |-> url,
                                                      depth |-> recursion,
                                                      curled |-> r.curled])]
         IN  crawl_links(st1, target_domain, find_all_a(r.html), recursion,
                         max_depth)

\* inner_crawl(target_domain, url, recursion, max_depth), lines 61-65
inner_crawl(st, target_domain, url, recursion, max_depth) ==
    IF recursion > max_depth THEN st
    ELSE LET r == get_source_using_curl(st.cache, url)
             st1 == [st EXCEPT !.cache = r.cache,
                               !.visited = Append(@, [url |-> url,
                                                      depth |-> recursion,
                                                      curled |-> r.curled])]
         IN  crawl_links(st1, target_domain, find_all_a(r.html), recursion,
                         max_depth)

\* the loop over the anchors without the test for '..': an href is a
\* sub-listing or a leaf whatever it starts with
crawl_links_no_dotdot(st, target_domain, links, recursion, max_depth) ==
    IF links = << >> \/ st.err # "" THEN st
    ELSE LET link == links[1]
             href == link.href
         IN  IF ~link.has_href THEN [st EXCEPT !.err = "AttributeError"]
             ELSE IF endswith(href, SLASH)
                  THEN crawl_links(inner_crawl(st, target_domain,
                                               target_domain \o href,
                                               recursion + 1, max_depth),
                                   target_domain, Tail(links), recursion,
                                   max_depth)
             ELSE crawl_links([st EXCEPT !.urls = Append(@, target_domain \o href)],
                              target_domain, Tail(links), recursion, max_depth)

\* the loop over the anchors with a list that holds no URL twice: a leaf
\* already in downloadable_urls is not appended again
crawl_links_once_per_url(st, target_domain, links, recursion, max_depth) ==
    IF links = << >> \/ st.err # "" THEN st
    ELSE LET link == links[1]
             href == link.href
         IN  IF ~link.has_href THEN [st EXCEPT !.err = "AttributeError"]
             ELSE IF startswith(href, DOTDOT)
                  THEN crawl_links(st, target_domain, Tail(links), recursion,
                                   max_depth)
             ELSE IF endswith(href, SLASH)
                  THEN crawl_links(inner_crawl(st, target_domain,
                                               target_domain \o href,
                                               recursion + 1, max_depth),
                                   target_domain, Tail(links), recursion,
                                   max_depth)
             ELSE IF \E i \in DOMAIN st.urls : st.urls[i] = target_domain \o href
                  THEN crawl_links(st, target_domain, Tail(links), recursion,
                                   max_depth)
             ELSE crawl_links([st EXCEPT !.urls = Append(@, target_domain \o href)],
                              target_domain, Tail(links), recursion, max_depth)

\* the loop over soup.find_all('a'), lines 67-76; link.get('href') is None
\* for an anchor without href, and None.startswith raises AttributeError
crawl_links(st, target_domain, links, recursion, max_depth) ==
    IF links = << >> \/ st.err # "" THEN st
    ELSE LET link == links[1]
             href == link.href
         IN  IF ~link.has_href THEN [st EXCEPT !.err = "AttributeError"]
             ELSE IF startswith(href, DOTDOT)
                  THEN crawl_links(st, target_domain, Tail(links), recursion,
                                   max_depth)
             ELSE IF endswith(href, SLASH)
                  THEN crawl_links(inner_crawl(st, target_domain,
                                               target_domain \o href,
                                               recursion + 1, max_depth),
                                   target_domain, Tail(links), recursion,
                                   max_depth)
             ELSE crawl_links([st EXCEPT !.urls = Append(@, target_domain \o href)],
                              target_domain, Tail(links), recursion, max_depth)

\* crawl_h5ai(target_domain, url, recursion, max_depth) with the cache
\* directory `cache`; when err is not "", the call raised and returned nothing
crawl_h5ai(cache, target_domain, url, recursion, max_depth) ==
    inner_crawl([cache |-> cache, urls |-> << >>, err |-> "", visited |-> << >>],
                target_domain, url, recursion, max_depth)

(***************************************************************************)
(* The URLs, hrefs and pages the crawls of the model are run on.           *)
(***************************************************************************)
HostH == HTTP \o <<"h">>
RootF == HostH \o <<"/", "f", "/">>
SubS == HostH \o <<"/", "f", "/", "s", "/">>
SubT == HostH \o <<"/", "f", "/", "s", "/", "t", "/">>

HrefSub == <<"/", "f", "/", "s", "/">>
HrefSubT == <<"/", "f", "/", "s", "/", "t", "/">>
HrefSelf == <<"/", "f", "/">>
HrefLeafA == <<"/", "f", "/", "a">>
HrefLeafB == <<"/", "f", "/", "s", "/", "b">>
HrefLeafC == <<"/", "f", "/", "s", "/", "t", "/", "c">>
HrefRelLeaf == <<"a">>
HrefUp == <<".", ".", "/">>
HrefUpLeaf == <<".", ".", "/", "x">>

\* every sequence over S of length at most n
RECURSIVE SeqsUpTo(_, _)
SeqsUpTo(S, n) ==
    IF n = 0 THEN {<< >>}
    ELSE LET shorter == SeqsUpTo(S, n - 1)
         IN  shorter \cup {Append(q, x) : q \in {r \in shorter : Len(r) = n - 1},
                                          x \in S}

\* a served page: some markup, then the anchors
Page(anchors) == <<HtmlTag>> \o anchors

RootAnchors == {A(HrefSub), A(HrefLeafA), A(HrefRelLeaf), A(HrefUp), ANoHref}

\* the pages of the sub-listing: empty, a leaf, a leaf after a link up, a leaf
\* after a link back to the root listing, a leaf before an anchor without
\* href, a leaf after a link to the listing below
SubPages == {<< >>,
             <<A(HrefLeafB)>>,
             <<A(HrefUpLeaf), A(HrefLeafB)>>,
             <<A(HrefSelf), A(HrefLeafB)>>,
             <<A(HrefLeafB), ANoHref>>,
             <<A(HrefSubT), A(HrefLeafB)>>}

\* the page of the listing below the sub-listing
PageT == <<A(HrefLeafC)>>

\* the servers of the crawl specification: any page at the root listing, a
\* page of SubPages at the sub-listing, or no answer from the sub-listing
CrawlSites ==
    {[u \in {RootF, SubS, SubT} |->
         IF u = RootF THEN Page(p) ELSE IF u = SubS THEN Page(q) ELSE Page(PageT)] :
        p \in SeqsUpTo(RootAnchors, MaxAnchors), q \in SubPages}
    \cup {[u \in {RootF} |-> Page(p)] : p \in SeqsUpTo(RootAnchors, MaxAnchors)}

CrawlRoots == {RootF, SubS}

NoCall == [op |-> "none"]
Empty == << >>

\* the values of the variables a specification does not use
Idle ==
    /\ downloaded_db = Empty
    /\ files = Empty
    /\ download_completed = << >>
    /\ pc = "idle"
    /\ to_work_urls = << >>
    /\ d_url = << >>
    /\ total_downloadable_urls = 0
    /\ target_download_domain = None
    /\ w = 0 /\ d = 0 /\ k = 0
    /\ runs = 0
    /\ transfers = {}
    /\ stack = << >>
    /\ downloadable_urls = << >>

(***************************************************************************)
(* SpecCrawl: crawls of one server, one after the other, sharing the cache *)
(* directory.                                                              *)
(***************************************************************************)
InitCrawl ==
    /\ Idle
    /\ url_cache = Empty
    /\ site \in CrawlSites
    /\ down = {}
    /\ list_file = << >> /\ default_depth = 0
    /\ last = NoCall
    /\ curl_calls = Empty
    /\ first_html = Empty

\* lines 177-184 for one work item: get_target_domain, then crawl_h5ai
Crawl(url, max_depth) ==
    LET target_domain == get_target_domain(url)
        r == crawl_h5ai(url_cache, target_domain, url, 0, max_depth)
    IN  /\ target_domain # None
        /\ url_cache' = r.cache
        /\ last' = [op |-> "crawl_h5ai", url |-> url,
                    target_domain |-> target_domain, max_depth |-> max_depth,
                    err |-> r.err, urls |-> r.urls, visited |-> r.visited]
        /\ UNCHANGED <<disk, site, down, script, inputs, walk, history>>

CrawlAny == \E url \in CrawlRoots, max_depth \in 0..MaxDepth : Crawl(url, max_depth)

NextCrawl == CrawlAny

SpecCrawl == InitCrawl /\ [][NextCrawl]_vars

(***************************************************************************)
(* The listing tree as the crawl sees it: a page is what the cache holds   *)
(* for its URL, else what the server answers.                              *)
(***************************************************************************)
Range(q) == {q[i] : i \in DOMAIN q}

View(url) ==
    IF url_to_file_name(url) \in DOMAIN url_cache
    THEN url_cache[url_to_file_name(url)]
    ELSE IF CurlFails(url) THEN EmptyHtml ELSE site[url]

\* the hrefs of the anchors of the page at url that have one
HrefsOf(url) == {a.href : a \in {b \in Range(find_all_a(View(url))) : b.has_href}}

SubListingsOf(target_domain, url) ==
    {target_domain \o h : h \in {g \in HrefsOf(url) :
                                    ~startswith(g, DOTDOT) /\ endswith(g, SLASH)}}

LeavesOf(target_domain, url) ==
    {target_domain \o h : h \in {g \in HrefsOf(url) :
                                    ~startswith(g, DOTDOT) /\ ~endswith(g, SLASH)}}

\* the listing pages at depth n below root
RECURSIVE Level(_, _, _)
Level(target_domain, root, n) ==
    IF n = 0 THEN {root}
    ELSE UNION {SubListingsOf(target_domain, p) :
                    p \in Level(target_domain, root, n - 1)}

\* the leaves whose anchor is on a listing page at depth n
LeavesAt(target_domain, root, n) ==
    UNION {LeavesOf(target_domain, p) : p \in Level(target_domain, root, n)}

Crawled == last.op = "crawl_h5ai"
Returned == Crawled /\ last.err = ""

\* C5: no listing page deeper than max_depth is fetched; a crawl that returns
\* returns only leaves that are on a listing page at depth <= max_depth (so no
\* leaf that exists only one level deeper), and it returns every leaf, and has
\* fetched every listing page, of the depths 0..max_depth.
C5_DepthTruncation ==
    Crawled =>
        /\ \A i \in DOMAIN last.visited : last.visited[i].depth <= last.max_depth
        /\ last.err = "" =>
            /\ Range(last.urls) =
                   UNION {LeavesAt(last.target_domain, last.url, n) :
                              n \in 0..last.max_depth}
            /\ {<<v.url, v.depth>> : v \in Range(last.visited)} =
                   UNION {{<<p, n>> : p \in Level(last.target_domain, last.url, n)} :
                              n \in 0..last.max_depth}

\* a crawl with max_depth = D-1 of a tree of depth D returned: there is a leaf
\* only at depth D, a leaf at depth max_depth, and no listing below depth D
C5_Witness ==
    /\ Returned
    /\ last.max_depth >= 1
    /\ Level(last.target_domain, last.url, last.max_depth + 1) # {}
    /\ Level(last.target_domain, last.url, last.max_depth + 2) = {}
    /\ LeavesAt(last.target_domain, last.url, last.max_depth) # {}
    /\ LeavesAt(last.target_domain, last.url, last.max_depth + 1)
         \ UNION {LeavesAt(last.target_domain, last.url, n) : n \in 0..last.max_depth}
         # {}

\* C6: every URL a crawl returns is located under a listing page the crawl
\* fetched and on which its anchor was found.
C6_LeafUnderItsListing ==
    Returned =>
        \A i \in DOMAIN last.urls :
            \E v \in Range(last.visited) :
                /\ last.urls[i] \in LeavesOf(last.target_domain, v.url)
                /\ startswith(last.urls[i], v.url)

\* C7: a crawl never fails, whatever the anchors of the pages are.
C7_CrawlNeverFails == Crawled => last.err = ""

\* the part of a URL after the target domain
HrefOfUrl(target_domain, url) == From(url, Len(target_domain) + 1)

\* C8: no URL fetched as a sub-listing and no URL returned by a crawl is the
\* target domain followed by an href that starts with '..'.
C8_NoUpwardTraversal ==
    Crawled =>
        /\ \A i \in DOMAIN last.urls :
               ~startswith(HrefOfUrl(last.target_domain, last.urls[i]), DOTDOT)
        /\ \A i \in DOMAIN last.visited :
               i > 1 =>
                 ~startswith(HrefOfUrl(last.target_domain, last.visited[i].url),
                             DOTDOT)

\* a crawl returned some leaf after walking a root listing with a '..' link to
\* a directory and a sub-listing with a '..' link to a file
C8_Witness ==
    /\ Returned
    /\ last.urls # << >>
    /\ \E v \in Range(last.visited) :
           v.depth = 0 /\ HrefUp \in HrefsOf(v.url)
    /\ \E v \in Range(last.visited) :
           v.depth >= 1 /\ HrefUpLeaf \in HrefsOf(v.url)

\* the leaves below the listing at url in pre-order: the anchors of a page in
\* page order, the leaves of a sub-listing at the place of its anchor, nothing
\* for a listing deeper than max_depth
RECURSIVE PreOrder(_, _, _, _)
RECURSIVE PreOrderOfAnchors(_, _, _, _)
PreOrder(target_domain, url, depth, max_depth) ==
    IF depth > max_depth THEN << >>
    ELSE PreOrderOfAnchors(target_domain, find_all_a(View(url)), depth, max_depth)

PreOrderOfAnchors(target_domain, anchors, depth, max_depth) ==
    IF anchors = << >> THEN << >>
    ELSE LET a == anchors[1]
             here == IF ~a.has_href \/ startswith(a.href, DOTDOT) THEN << >>
                     ELSE IF endswith(a.href, SLASH)
                          THEN PreOrder(target_domain, target_domain \o a.href,
                                        depth + 1, max_depth)
                     ELSE <<target_domain \o a.href>>
         IN  here \o PreOrderOfAnchors(target_domain, Tail(anchors), depth, max_depth)

\* C17: the list a crawl returns is the pre-order list of the leaves of the
\* listings of depth 0..max_depth, a leaf once for each anchor the walk finds
\* it at.
C17_PreOrderWithDuplicates ==
    Returned => last.urls = PreOrder(last.target_domain, last.url, 0, last.max_depth)

\* a crawl returned a leaf twice, with another leaf, found on a sub-listing,
\* between the two
C17_Witness ==
    /\ Returned
    /\ \E i, j, n \in DOMAIN last.urls :
           /\ i < j /\ j < n
           /\ last.urls[i] = last.urls[n]
           /\ last.urls[j] # last.urls[i]
           /\ \E v \in Range(last.visited) :
                  v.depth >= 1 /\ last.urls[j] \in LeavesOf(last.target_domain, v.url)

(***************************************************************************)
(* SpecWalk: crawls run one step of the interpreter at a time.  A frame of *)
(* the stack is a call of inner_crawl inside its loop: its url, its        *)
(* recursion and the anchors the loop has not reached yet.                 *)
(***************************************************************************)
\* the pages of the root listing: up to MaxAnchors anchors, each to the
\* sub-listing, to the root listing itself or to a file
WalkAnchors == {A(HrefSub), A(HrefSelf), A(HrefLeafA)}

WalkSites ==
    {[u \in {RootF, SubS, SubT} |->
         IF u = RootF THEN Page(p) ELSE IF u = SubS THEN Page(q) ELSE Page(PageT)] :
        p \in SeqsUpTo(WalkAnchors, MaxAnchors), q \in SubPages}

\* the stack can hold the calls of the depths 0..MaxDepth, and one more
StackLimit == MaxDepth + 2

InitWalk ==
    /\ Idle
    /\ url_cache = Empty
    /\ site \in WalkSites
    /\ down = {}
    /\ list_file = << >> /\ default_depth = 0
    /\ last = NoCall
    /\ curl_calls = Empty
    /\ first_html = Empty

\* the call without the test of lines 62-63: a listing is fetched and walked
\* whatever its depth is
inner_crawl_call_any_depth(stk, cache, url, recursion, max_depth) ==
    LET r == get_source_using_curl(cache, url)
    IN  [stack |-> Append(stk, [url |-> url, recursion |-> recursion,
                                links |-> find_all_a(r.html)]),
         cache |-> r.cache,
         visited |-> <<[url |-> url, depth |-> recursion, curled |-> r.curled]>>]

\* the call inner_crawl(target_domain, url, recursion, max_depth) up to its
\* loop, lines 62-67: it returns at once, or it fetches the page and starts
\* the loop over its anchors
inner_crawl_call(stk, cache, url, recursion, max_depth) ==
    IF recursion > max_depth
    THEN [stack |-> stk, cache |-> cache, visited |-> << >>]
    ELSE LET r == get_source_using_curl(cache, url)
         IN  [stack |-> Append(stk, [url |-> url, recursion |-> recursion,
                                     links |-> find_all_a(r.html)]),
              cache |-> r.cache,
              visited |-> <<[url |-> url, depth |-> recursion,
                             curled |-> r.curled]>>]

Walking == stack # << >>

\* crawl_h5ai(target_domain, url, 0, max_depth) is called, lines 59 and 77
WalkCall(url, max_depth) ==
    LET target_domain == get_target_domain(url)
        c == inner_crawl_call(<< >>, url_cache, url, 0, max_depth)
    IN  /\ ~Walking
        /\ target_domain # None
        /\ stack' = c.stack
        /\ url_cache' = c.cache
        /\ downloadable_urls' = << >>
        /\ last' = [op |-> "inner_crawl", url |-> url,
                    target_domain |-> target_domain, max_depth |-> max_depth,
                    err |-> "", visited |-> c.visited]
        /\ UNCHANGED <<disk, site, down, script, inputs, history>>

WalkCallAny == \E url \in CrawlRoots, max_depth \in 0..MaxDepth : WalkCall(url, max_depth)

\* one step of the innermost call: its loop ends and it returns, or the loop
\* body runs for the next anchor, lines 67-76
WalkStep ==
    LET top == stack[Len(stack)]
        below == SubSeq(stack, 1, Len(stack) - 1)
    IN  /\ Walking
        /\ UNCHANGED <<disk, site, down, script, inputs, history>>
        /\ IF top.links = << >>
           THEN /\ stack' = below
                /\ UNCHANGED <<url_cache, downloadable_urls, last>>
           ELSE LET link == top.links[1]
                    href == link.href
                    rest == Append(below, [top EXCEPT !.links = Tail(@)])
                IN  IF ~link.has_href
                    THEN /\ stack' = << >>
                         /\ last' = [last EXCEPT !.err = "AttributeError"]
                         /\ UNCHANGED <<url_cache, downloadable_urls>>
                    ELSE IF startswith(href, DOTDOT)
                    THEN /\ stack' = rest
                         /\ UNCHANGED <<url_cache, downloadable_urls, last>>
                    ELSE IF endswith(href, SLASH)
                    THEN LET c == inner_crawl_call(rest, url_cache,
                                                   last.target_domain \o href,
                                                   top.recursion + 1,
                                                   last.max_depth)
                         IN  /\ Len(c.stack) <= StackLimit
                             /\ stack' = c.stack
                             /\ url_cache' = c.cache
                             /\ last' = [last EXCEPT !.visited = @ \o c.visited]
                             /\ UNCHANGED downloadable_urls
                    ELSE /\ stack' = rest
                         /\ downloadable_urls' =
                                Append(downloadable_urls, last.target_domain \o href)
                         /\ UNCHANGED <<url_cache, last>>

NextWalk == WalkCallAny \/ WalkStep

SpecWalk == InitWalk /\ [][NextWalk]_vars /\ WF_vars(WalkStep)

Walked == last.op = "inner_crawl" /\ ~Walking

\* the calls on the stack have the depths 0, 1, 2, ... from the outermost to
\* the innermost and none is deeper than max_depth
DepthBoundsTheStack ==
    \A i \in DOMAIN stack :
        stack[i].recursion = i - 1 /\ stack[i].recursion <= last.max_depth

\* C14: a crawl that was called ends (it returns or it raises), and while it
\* runs each call on its stack is one deeper than its caller and none is
\* deeper than max_depth.
C14_CrawlTerminates == (Walking ~> ~Walking) /\ []DepthBoundsTheStack

\* a crawl of a site with a cycle of sub-listing links has ended after it
\* fetched the same listing twice
C14_Witness ==
    /\ Walked
    /\ last.err = ""
    /\ \E i, j \in DOMAIN last.visited :
           i < j /\ last.visited[i].url = last.visited[j].url

(***************************************************************************)
(* SpecFetch: calls of get_source_using_curl and crawls, one after the     *)
(* other, sharing the cache directory, while the server goes down and      *)
(* comes back.                                                             *)
(***************************************************************************)
RootFs == HTTPS \o <<"h", "/", "f", "/">>

\* a root with a character before the scheme
OddRoot == <<"x">> \o RootF

FetchURLs == {RootF, RootFs, SubS}

FetchRoots == {RootF, OddRoot}

FetchSite ==
    [u \in FetchURLs |->
        IF u = RootF THEN Page(<<A(HrefSub), A(HrefLeafA)>>)
        ELSE IF u = RootFs THEN Page(<<A(HrefLeafA)>>)
        ELSE Page(<<A(HrefLeafB)>>)]

\* f with x mapped to v
Put(f, x, v) == [y \in DOMAIN f \cup {x} |-> IF y = x THEN v ELSE f[y]]

InitFetch ==
    /\ Idle
    /\ url_cache = Empty
    /\ site = FetchSite
    /\ down \in SUBSET FetchURLs
    /\ list_file = << >> /\ default_depth = 0
    /\ last = NoCall
    /\ curl_calls = [u \in FetchURLs |-> 0]
    /\ first_html = Empty

\* one call get_source_using_curl(url)
Fetch(url) ==
    LET r == get_source_using_curl(url_cache, url)
    IN  /\ r.curled => curl_calls[url] < MaxCalls
        /\ url_cache' = r.cache
        /\ last' = [op |-> "get_source_using_curl", url |-> url,
                    html |-> r.html, curled |-> r.curled]
        /\ curl_calls' = IF r.curled THEN [curl_calls EXCEPT ![url] = @ + 1]
                         ELSE curl_calls
        /\ first_html' =
               IF url_to_file_name(url) \notin DOMAIN url_cache
                  /\ url \notin DOMAIN first_html
               THEN Put(first_html, url, r.html)
               ELSE first_html
        /\ UNCHANGED <<disk, site, down, script, inputs, walk, transfers>>

FetchAny == \E url \in FetchURLs : Fetch(url)

\* the server stops answering for url: curl and wget exit non-zero on it
ServerDown ==
    /\ \E url \in DOMAIN site \ down : down' = down \cup {url}
    /\ UNCHANGED <<url_cache, disk, site, script, inputs, walk, last, history>>

\* the server answers for url again
ServerUp ==
    /\ \E url \in down : down' = down \ {url}
    /\ UNCHANGED <<url_cache, disk, site, script, inputs, walk, last, history>>

\* a crawl of the server between the calls
FetchCrawl == \E url \in FetchRoots, max_depth \in 0..MaxDepth : Crawl(url, max_depth)

NextFetch == FetchAny \/ ServerDown \/ ServerUp \/ FetchCrawl

SpecFetch == InitFetch /\ [][NextFetch]_vars

Fetched == last.op = "get_source_using_curl"

\* C1: for a URL whose first fetch found no cache entry, curl was run exactly
\* once on it over all its fetches (once by the first, never by a later one),
\* and every fetch of it returns the html the first one returned.
C1_CacheIdempotence ==
    \A u \in DOMAIN first_html :
        /\ curl_calls[u] = 1
        /\ (Fetched /\ last.url = u) => last.html = first_html[u]

\* a later fetch of such a URL made no network call and returned the html of
\* the first fetch although the server would now answer something else
C1_Witness ==
    /\ Fetched
    /\ last.url \in DOMAIN first_html
    /\ ~last.curled
    /\ last.html # (IF CurlFails(last.url) THEN EmptyHtml ELSE site[last.url])

\* the URLs whose fetch by a call of Fetch failed
FailedFetches == {u \in DOMAIN first_html : first_html[u] = EmptyHtml}

\* C15: a URL whose fetch failed has empty content in the cache; curl ran once
\* on it (in the failing call), every fetch of it returns empty content, a
\* crawl that walks it does not run curl on it, and a crawl does not fail,
\* returns exactly the leaves of the pages it walked (none for a page with
\* empty content) and walks every sub-listing above max_depth of every page
\* it walked.
C15_StickyFailedFetch ==
    /\ \A u \in FailedFetches :
           /\ url_to_file_name(u) \in DOMAIN url_cache
           /\ url_cache[url_to_file_name(u)] = EmptyHtml
           /\ curl_calls[u] = 1
           /\ (Fetched /\ last.url = u) => last.html = EmptyHtml
           /\ Crawled => \A v \in Range(last.visited) : v.url = u => ~v.curled
    /\ Crawled =>
           /\ last.err = ""
           /\ \A v \in Range(last.visited) :
                  View(v.url) = EmptyHtml => LeavesOf(last.target_domain, v.url) = {}
           /\ Range(last.urls) =
                  UNION {LeavesOf(last.target_domain, v.url) : v \in Range(last.visited)}
           /\ \A v \in Range(last.visited) :
                  v.depth < last.max_depth =>
                      \A sub \in SubListingsOf(last.target_domain, v.url) :
                          \E x \in Range(last.visited) :
                              x.url = sub /\ x.depth = v.depth + 1

\* a crawl walked the sub-listing whose fetch had failed, while the server
\* answers for it again, and returned the leaf that follows it on the root page
C15_Witness ==
    /\ Crawled
    /\ SubS \in FailedFetches
    /\ ~CurlFails(SubS)
    /\ \E i \in DOMAIN last.visited : last.visited[i].url = SubS
    /\ last.urls = <<HostH \o HrefLeafA>>
    /\ find_all_a(View(RootF)) = <<A(HrefSub), A(HrefLeafA)>>

\* C16: every URL a crawl fetched as a listing (the root among them) and every
\* URL it returned starts with the target domain of its root.
C16_SharesTargetDomain ==
    Crawled =>
        /\ \A v \in Range(last.visited) : startswith(v.url, last.target_domain)
        /\ \A i \in DOMAIN last.urls : startswith(last.urls[i], last.target_domain)

\* C18: a fetch answered from the cache returns html that a run of curl on
\* the same URL produces: the page the server has for that URL, or empty
\* content after a failure.
C18_CacheHitIsOwnContent ==
    (Fetched /\ ~last.curled) =>
        last.html \in {EmptyHtml} \cup {site[u] : u \in {last.url} \cap DOMAIN site}

(***************************************************************************)
(* get_urls_from_file.                                                     *)
(***************************************************************************)
NL == "\n"
SPACE == " "
TXT == <<".", "t", "x", "t">>

\* text.splitlines() for a text whose only line boundary is "\n": a final
\* line boundary opens no further line
RECURSIVE splitlines(_)
splitlines(text) ==
    IF text = << >> THEN << >>
    ELSE LET n == IndexFrom(text, NL, 1)
         IN  IF n = 0 THEN <<text>>
             ELSE <<SubSeq(text, 1, n - 1)>> \o splitlines(From(text, n + 1))

DigitValue == [c \in {"0", "1", "2", "3", "4", "5", "6", "7", "8", "9"} |->
                 CASE c = "0" -> 0 [] c = "1" -> 1 [] c = "2" -> 2 [] c = "3" -> 3
                   [] c = "4" -> 4 [] c = "5" -> 5 [] c = "6" -> 6 [] c = "7" -> 7
                   [] c = "8" -> 8 [] c = "9" -> 9]

\* whether int(s) returns, for an s without sign, blank or underscore
IsInt(s) == s # << >> /\ \A i \in DOMAIN s : s[i] \in DOMAIN DigitValue

\* int(s) for such an s
RECURSIVE int(_)
int(s) ==
    IF s = << >> THEN 0
    ELSE 10 * int(SubSeq(s, 1, Len(s) - 1)) + DigitValue[s[Len(s)]]

\* the loop of lines 124-129 with the depth always taken from default_depth
RECURSIVE segments_of_default_only(_, _)
segments_of_default_only(lines, depth) ==
    IF lines = << >> THEN [status |-> "returned", segments |-> << >>]
    ELSE LET splitted == split(lines[1], SPACE)
             rest == segments_of_default_only(Tail(lines), depth)
         IN  IF rest.status # "returned" THEN rest
             ELSE [status |-> "returned",
                   segments |-> <<(<<splitted[1], depth>>)>> \o rest.segments]

\* the loop of lines 124-129 over the lines: the segments, or the ValueError
\* of int() at the first line whose second field is no integer
RECURSIVE segments_of(_, _)
segments_of(lines, depth) ==
    IF lines = << >> THEN [status |-> "returned", segments |-> << >>]
    ELSE LET splitted == split(lines[1], SPACE)
         IN  IF Len(splitted) > 1 /\ ~IsInt(splitted[2])
             THEN [status |-> "ValueError", segments |-> << >>]
             ELSE LET rest == segments_of(Tail(lines), depth)
                      item == IF Len(splitted) > 1
                              THEN <<splitted[1], int(splitted[2])>>
                              ELSE <<splitted[1], depth>>
                  IN  IF rest.status # "returned" THEN rest
                      ELSE [status |-> "returned",
                            segments |-> <<item>> \o rest.segments]

\* get_urls_from_file(path, depth) when the file at path is `file`: the
\* segments returned, or how the call ends otherwise
get_urls_from_file(file, path, depth) ==
    IF endswith(path, TXT)
    THEN IF ~file.exists THEN [status |-> "exit", segments |-> << >>]
         ELSE segments_of(splitlines(file.text), depth)
    ELSE [status |-> "exit", segments |-> << >>]

(***************************************************************************)
(* The list files of the model: written from entries, an entry being a URL *)
(* and the fields that follow it on its line, one line per entry.          *)
(***************************************************************************)
\* the fields after the URL: the text of each, and the number it denotes
\* (-1 when it denotes none)
Field(s, n) == [s |-> s, n |-> n]
Rests == {<< >>,
          <<Field(<<"2">>, 2)>>,
          <<Field(<<"1", "0">>, 10)>>,
          <<Field(<<"x">>, -1)>>,
          <<Field(<< >>, -1)>>,
          <<Field(<<"2">>, 2), Field(<<"5">>, 5)>>}

Entries == [url : {RootF, SubS, << >>}, rest : Rests]

RECURSIVE JoinFields(_)
JoinFields(rest) ==
    IF rest = << >> THEN << >> ELSE <<SPACE>> \o rest[1].s \o JoinFields(Tail(rest))

LineOf(e) == e.url \o JoinFields(e.rest)

\* the lines, each but the last followed by a line boundary, and the last one
\* too when final_newline
RECURSIVE TextOf(_, _)
TextOf(entries, final_newline) ==
    IF entries = << >> THEN << >>
    ELSE IF Len(entries) = 1
         THEN LineOf(entries[1]) \o (IF final_newline THEN <<NL>> ELSE << >>)
    ELSE LineOf(entries[1]) \o <<NL>> \o TextOf(Tail(entries), final_newline)

\* a last line without line boundary is a line only when it is not empty
ListFiles ==
    {[exists |-> x, text |-> TextOf(es, nl), entries |-> es] :
        x \in BOOLEAN,
        es \in {q \in SeqsUpTo(Entries, MaxLines) :
                   q # << >> => LineOf(q[Len(q)]) # << >>},
        nl \in BOOLEAN}
    \cup {[exists |-> TRUE, text |-> TextOf(es, TRUE), entries |-> es] :
        es \in {q \in SeqsUpTo(Entries, MaxLines) : q # << >>}}

PathTxt == <<"l">> \o TXT
PathCsv == <<"l", ".", "c", "s", "v">>
Paths == {PathTxt, PathCsv}

\* the default of --depth, and a value given with -d
ArgparseDepth == 4
OtherDepth == ArgparseDepth + 1
Depths == {ArgparseDepth, OtherDepth}

(***************************************************************************)
(* SpecFile: one call of get_urls_from_file on a list file.                *)
(***************************************************************************)
InitFile ==
    /\ Idle
    /\ url_cache = Empty
    /\ site = Empty
    /\ down = {}
    /\ list_file \in ListFiles
    /\ default_depth \in Depths
    /\ last = NoCall
    /\ curl_calls = Empty
    /\ first_html = Empty

ReadListFile ==
    /\ last = NoCall
    /\ \E path \in Paths :
        LET r == get_urls_from_file(list_file, path, default_depth)
        IN  last' = [op |-> "get_urls_from_file", path |-> path,
                     status |-> r.status, segments |-> r.segments]
    /\ UNCHANGED <<url_cache, disk, site, down, script, inputs, walk, history>>

NextFile == ReadListFile

SpecFile == InitFile /\ [][NextFile]_vars

ReadFile == last.op = "get_urls_from_file"

\* the entry has a second field, and it is an integer
HasDepth(e) == e.rest # << >>
WellFormed(e) == HasDepth(e) => e.rest[1].n >= 0

\* C10: a call on an existing .txt file returns when every second field is an
\* integer, and then it returns one work item per line, in file order: the
\* first field with the number of the second field, or with the default depth
\* when the line has no second field.
C10_ListFileItems ==
    (ReadFile /\ endswith(last.path, TXT) /\ list_file.exists) =>
        LET es == list_file.entries
        IN  /\ last.status = "returned" <=> \A i \in DOMAIN es : WellFormed(es[i])
            /\ last.status = "returned" =>
                 /\ Len(last.segments) = Len(es)
                 /\ \A i \in DOMAIN es :
                        last.segments[i] =
                            <<es[i].url,
                              IF HasDepth(es[i]) THEN es[i].rest[1].n
                              ELSE default_depth>>

\* the file of the two lines `http://h/f/ 2` and `http://h/f/s/` read with
\* the default depth 5
C10_Witness ==
    /\ ReadFile
    /\ list_file.text = RootF \o <<SPACE, "2", NL>> \o SubS \o <<NL>>
    /\ default_depth = OtherDepth
    /\ last.status = "returned"
    /\ last.segments = <<(<<RootF, 2>>), (<<SubS, OtherDepth>>)>>

(***************************************************************************)
(* The completion ledger.                                                  *)
(***************************************************************************)
\* load_downloaded_urls that replaces the list by nothing: the file is not
\* read
load_downloaded_urls_not_read(completed, db, major_url) == completed

\* download_completed after load_downloaded_urls(major_url), when it was
\* `completed` and the ledger directory is db
load_downloaded_urls(completed, db, major_url) ==
    LET db_path == url_to_file_name(major_url)
    IN  IF db_path \in DOMAIN db THEN completed \o db[db_path] ELSE completed

\* download_complete that pickles the new URL alone
download_complete_only_url(completed, db, major_url, url) ==
    [completed |-> Append(completed, url),
     db |-> Put(db, url_to_file_name(major_url), <<url>>)]

\* download_complete without the pickle.dump of lines 45-46: the list grows in
\* memory only
download_complete_not_dumped(completed, db, major_url, url) ==
    [completed |-> Append(completed, url), db |-> db]

\* download_completed and the ledger directory after
\* download_complete(major_url, url)
download_complete(completed, db, major_url, url) ==
    LET appended == Append(completed, url)
    IN  [completed |-> appended,
         db |-> Put(db, url_to_file_name(major_url), appended)]

(***************************************************************************)
(* download_url_to_path.                                                   *)
(***************************************************************************)
HexValue == [c \in {"0", "1", "2", "3", "4", "5", "6", "7", "8", "9",
                    "a", "b", "c", "d", "e", "f"} |->
               CASE c = "a" -> 10 [] c = "b" -> 11 [] c = "c" -> 12
                 [] c = "d" -> 13 [] c = "e" -> 14 [] c = "f" -> 15
                 [] OTHER -> DigitValue[c]]

\* the characters of the codes that the escapes of the model's URLs denote
Chr == [n \in {47, 97, 98} |-> CASE n = 47 -> "/" [] n = 97 -> "a" [] n = 98 -> "b"]

\* urllib.parse.unquote: %XX becomes the character of code XX
RECURSIVE url_decode(_)
url_decode(url) ==
    IF url = << >> THEN << >>
    ELSE IF /\ url[1] = "%"
            /\ Len(url) >= 3
            /\ url[2] \in DOMAIN HexValue
            /\ url[3] \in DOMAIN HexValue
            /\ 16 * HexValue[url[2]] + HexValue[url[3]] \in DOMAIN Chr
         THEN <<Chr[16 * HexValue[url[2]] + HexValue[url[3]]]>>
                  \o url_decode(From(url, 4))
    ELSE <<url[1]>> \o url_decode(Tail(url))

download_url_to_path(target_domain, url) ==
    url_decode(replace(url, target_domain, DOT))

\* the position of the last "/" of path, 0 when none
LastSlash(path) ==
    IF \E i \in DOMAIN path : path[i] = "/"
    THEN CHOOSE i \in DOMAIN path :
             path[i] = "/" /\ \A j \in DOMAIN path : j > i => path[j] # "/"
    ELSE 0

\* s.rstrip('/')
RECURSIVE rstrip_slash(_)
rstrip_slash(s) ==
    IF s # << >> /\ s[Len(s)] = "/" THEN rstrip_slash(SubSeq(s, 1, Len(s) - 1))
    ELSE s

\* os.path.dirname
dirname(path) ==
    LET head == SubSeq(path, 1, LastSlash(path))
    IN  IF head # << >> /\ \E i \in DOMAIN head : head[i] # "/"
        THEN rstrip_slash(head)
        ELSE head

\* the test of line 96 on the ledger alone
skip_test_ledger_only(fs, completed, path, url) == url \in Range(completed)

\* the test of line 96
skip_test(fs, completed, path, url) ==
    path \in DOMAIN fs /\ url \in Range(completed)

(***************************************************************************)
(* The script: the servers, the command lines and the list files of the    *)
(* runs.                                                                   *)
(***************************************************************************)
HostG == HTTP \o <<"g">>
RootG == HostG \o <<"/", "f", "/">>
RootEmpty == HostG \o <<"/", "e", "/">>
NoScheme == <<"h", "/", "f", "/">>
HrefLeafEnc == <<"/", "f", "/", "%", "6", "1">>

MainSite ==
    [u \in {RootF, RootFs, SubS, RootG, RootEmpty} |->
        IF u = RootF THEN Page(<<A(HrefSub), A(HrefLeafA)>>)
        ELSE IF u = RootFs THEN Page(<<A(HrefLeafC)>>)
        ELSE IF u = SubS THEN Page(<<A(HrefLeafB)>>)
        ELSE IF u = RootG THEN Page(<<A(HrefLeafEnc)>>)
        ELSE Page(<< >>)]

MainRoots == {RootF, RootFs, RootG, RootEmpty, NoScheme}

\* python dl.py -u url, python dl.py -u http://h/f/ -d 0, and
\* python dl.py -f l.txt
CommandLines ==
    {[opt |-> "u", url |-> u, file |-> << >>, depth |-> ArgparseDepth] :
        u \in MainRoots}
    \cup {[opt |-> "u", url |-> RootF, file |-> << >>, depth |-> 0]}
    \cup {[opt |-> "f", url |-> << >>, file |-> PathTxt, depth |-> ArgparseDepth]}

Entry(url, rest) == [url |-> url, rest |-> rest]
ListFile(es) == [exists |-> TRUE, text |-> TextOf(es, TRUE), entries |-> es]

\* l.txt: the two roots in either order, or the root with nothing to download
MainListFiles ==
    {ListFile(<<Entry(RootF, <<Field(<<"1">>, 1)>>), Entry(RootG, << >>)>>),
     ListFile(<<Entry(RootG, << >>), Entry(RootF, << >>)>>),
     ListFile(<<Entry(RootEmpty, << >>)>>)}

\* d_url[url] = urls on a dict kept as the sequence of its items
RECURSIVE dict_set(_, _, _)
dict_set(items, key, value) ==
    IF items = << >> THEN <<[url |-> key, urls |-> value]>>
    ELSE IF items[1].url = key THEN <<[url |-> key, urls |-> value]>> \o Tail(items)
    ELSE <<items[1]>> \o dict_set(Tail(items), key, value)

(***************************************************************************)
(* Spec: runs of the script, one after the other, on the same directories, *)
(* while local files get deleted.                                          *)
(***************************************************************************)
Init ==
    /\ Idle
    /\ url_cache = Empty
    /\ site = MainSite
    /\ down = {}
    /\ list_file \in MainListFiles
    /\ default_depth = ArgparseDepth
    /\ last = NoCall
    /\ curl_calls = Empty
    /\ first_html = Empty

\* the process ends: sys.exit(1), an uncaught exception or the end of the
\* script
Ends(status) ==
    /\ pc' = "idle"
    /\ download_completed' = << >>
    /\ to_work_urls' = << >>
    /\ d_url' = << >>
    /\ total_downloadable_urls' = 0
    /\ target_download_domain' = None
    /\ w' = 0 /\ d' = 0 /\ k' = 0
    /\ last' = [op |-> "exit", status |-> status]

\* lines 138-172: the process starts and resolves its work items
Start ==
    /\ pc = "idle"
    /\ runs < MaxRuns
    /\ runs' = runs + 1
    /\ \E cmd \in CommandLines :
        LET work == IF cmd.opt = "u"
                    THEN [status |-> "returned",
                          segments |-> <<(<<cmd.url, cmd.depth>>)>>]
                    ELSE get_urls_from_file(list_file, cmd.file, cmd.depth)
        IN  IF work.status # "returned" THEN Ends(work.status)
            ELSE IF Len(work.segments) < 1 THEN Ends("exit")
            ELSE /\ pc' = "crawl"
                 /\ download_completed' = << >>
                 /\ to_work_urls' = work.segments
                 /\ d_url' = << >>
                 /\ total_downloadable_urls' = 0
                 /\ target_download_domain' = None
                 /\ w' = 1 /\ d' = 0 /\ k' = 0
                 /\ last' = [op |-> "start"]
    /\ UNCHANGED <<url_cache, disk, site, down, inputs, walk, history>>

\* lines 176-186: one round of the loop over to_work_urls
CrawlItem ==
    /\ pc = "crawl"
    /\ LET url == to_work_urls[w][1]
           max_depth == to_work_urls[w][2]
           target_domain == get_target_domain(url)
           r == crawl_h5ai(url_cache, target_domain, url, 0, max_depth)
       IN  IF target_domain = None
           THEN Ends("exit") /\ UNCHANGED url_cache
           ELSE /\ url_cache' = r.cache
                /\ IF r.err # "" THEN Ends(r.err)
                   ELSE /\ target_download_domain' = target_domain
                        /\ d_url' = dict_set(d_url, url, r.urls)
                        /\ total_downloadable_urls' =
                               total_downloadable_urls + Len(r.urls)
                        /\ w' = w + 1
                        /\ pc' = IF w = Len(to_work_urls) THEN "confirm"
                                 ELSE "crawl"
                        /\ last' = [op |-> "crawl_h5ai", url |-> url,
                                    target_domain |-> target_domain,
                                    max_depth |-> max_depth, err |-> r.err,
                                    urls |-> r.urls, visited |-> r.visited]
                        /\ UNCHANGED <<download_completed, to_work_urls, d, k>>
    /\ UNCHANGED <<disk, site, down, inputs, walk, history, runs>>

\* lines 189-202 without the test of the answer: any answer continues
Confirm_any_answer ==
    /\ pc = "confirm"
    /\ IF total_downloadable_urls = 0 THEN Ends("exit")
       ELSE \E continue_download \in {"y", "n"} :
               /\ pc' = "load"
               /\ d' = 1
               /\ last' = [op |-> "input", answer |-> continue_download]
               /\ UNCHANGED <<download_completed, to_work_urls, d_url,
                              total_downloadable_urls, target_download_domain,
                              w, k>>
    /\ UNCHANGED <<url_cache, disk, site, down, inputs, walk, history, runs>>

\* lines 189-202: the total, then the answer to 'Press y to continue: '
Confirm ==
    /\ pc = "confirm"
    /\ IF total_downloadable_urls = 0 THEN Ends("exit")
       ELSE \E continue_download \in {"y", "n"} :
               IF continue_download # "y" THEN Ends("exit")
               ELSE /\ pc' = "load"
                    /\ d' = 1
                    /\ last' = [op |-> "input", answer |-> continue_download]
                    /\ UNCHANGED <<download_completed, to_work_urls, d_url,
                                   total_downloadable_urls,
                                   target_download_domain, w, k>>
    /\ UNCHANGED <<url_cache, disk, site, down, inputs, walk, history, runs>>

\* line 205, and the entry into download_urls of line 206
Load ==
    /\ pc = "load"
    /\ d <= Len(d_url)
    /\ download_completed' =
           load_downloaded_urls(download_completed, downloaded_db, d_url[d].url)
    /\ last' = [op |-> "load_downloaded_urls", major_url |-> d_url[d].url]
    /\ IF d_url[d].urls = << >>
       THEN pc' = "load" /\ d' = d + 1 /\ k' = 0
       ELSE pc' = "download" /\ d' = d /\ k' = 1
    /\ UNCHANGED <<to_work_urls, d_url, total_downloadable_urls,
                   target_download_domain, w, runs>>
    /\ UNCHANGED <<url_cache, disk, site, down, inputs, walk, history>>

\* lines 91-103: one round of the loop of download_urls.  wget exits with 0
\* and leaves the file, or exits non-zero and leaves a partial file or none.
Download ==
    /\ pc = "download"
    /\ LET major_url == d_url[d].url
           url == d_url[d].urls[k]
           path == download_url_to_path(target_download_domain, url)
           directory == dirname(path)
           skip == skip_test(files, download_completed, path, url)
           step == [op |-> "download_urls", major_url |-> major_url,
                    url |-> url, path |-> path,
                    existed |-> path \in DOMAIN files,
                    in_ledger |-> url \in Range(download_completed),
                    succeeded_before |->
                        \E t \in transfers : /\ t.major_url = major_url
                                             /\ t.url = url
                                             /\ t.exit = 0]
           next_pc == IF k = Len(d_url[d].urls) THEN "load" ELSE "download"
           next_d == IF k = Len(d_url[d].urls) THEN d + 1 ELSE d
           next_k == IF k = Len(d_url[d].urls) THEN 0 ELSE k + 1
       IN  IF directory = << >>
           THEN Ends("FileNotFoundError") /\ UNCHANGED <<disk, transfers>>
           ELSE IF skip
           THEN /\ last' = step @@ [action |-> "skip", exit |-> 0]
                /\ pc' = next_pc /\ d' = next_d /\ k' = next_k
                /\ UNCHANGED <<disk, transfers, download_completed,
                               to_work_urls, d_url, total_downloadable_urls,
                               target_download_domain, w>>
           ELSE \E exit \in {0, 1}, written \in BOOLEAN :
                   LET c == download_complete(download_completed,
                                               downloaded_db, major_url, url)
                   IN  /\ exit = 0 => written
                       /\ files' = IF written
                                   THEN Put(files, path,
                                            IF exit = 0 THEN "full" ELSE "partial")
                                   ELSE files
                       /\ download_completed' = c.completed
                       /\ downloaded_db' = c.db
                       /\ transfers' = transfers \cup
                              {[major_url |-> major_url, url |-> url,
                                exit |-> exit, run |-> runs]}
                       /\ last' = step @@ [action |-> "wget", exit |-> exit]
                       /\ pc' = next_pc /\ d' = next_d /\ k' = next_k
                       /\ UNCHANGED <<to_work_urls, d_url,
                                      total_downloadable_urls,
                                      target_download_domain, w>>
    /\ UNCHANGED <<url_cache, site, down, inputs, walk, curl_calls, first_html, runs>>

\* the end of the script after the loop of lines 204-206
Finish ==
    /\ pc = "load"
    /\ d > Len(d_url)
    /\ Ends("done")
    /\ UNCHANGED <<url_cache, disk, site, down, inputs, walk, history, runs>>

\* somebody deletes a downloaded file while the script is not running
DeleteFile ==
    /\ pc = "idle"
    /\ \E path \in DOMAIN files :
           files' = [q \in DOMAIN files \ {path} |-> files[q]]
    /\ UNCHANGED <<url_cache, downloaded_db, site, down, script, inputs, walk, last,
                   history>>

Next == Start \/ CrawlItem \/ Confirm \/ Load \/ Download \/ Finish \/ DeleteFile

Spec == Init /\ [][Next]_vars

Downloaded == last.op = "download_urls"

\* C2: a transfer that fails does not put its URL into the ledger, in memory
\* or on disk, and a URL is skipped only when a transfer of it succeeded
\* before (a failed transfer is attempted again).
C2_FailedTransferNotRecorded ==
    /\ (Downloaded /\ last.action = "wget" /\ last.exit # 0 /\ ~last.in_ledger) =>
           /\ last.url \notin Range(download_completed)
           /\ \A f \in DOMAIN downloaded_db :
                  f = url_to_file_name(last.major_url) =>
                      last.url \notin Range(downloaded_db[f])
    /\ (Downloaded /\ last.action = "skip") =>
           \E t \in transfers : t.url = last.url /\ t.exit = 0

\* C3: a round of download_urls for a URL whose transfer under the same root
\* succeeded before, and whose local file exists, skips the URL: wget is not
\* run.
C3_SkipAfterSuccess ==
    (Downloaded /\ last.succeeded_before /\ last.existed) => last.action = "skip"

\* the URL was transferred with success by an earlier run of the script only,
\* and the present run, having loaded the ledger, skipped it
C3_Witness ==
    /\ Downloaded
    /\ last.action = "skip"
    /\ last.succeeded_before
    /\ \A t \in transfers :
           (t.url = last.url /\ t.major_url = last.major_url) => t.run < runs

\* C4: a URL is skipped only when its local file exists and the ledger holds
\* it; when the local file is missing, wget is run whatever the ledger says.
C4_MissingFileTransferred ==
    Downloaded =>
        /\ last.action = "skip" => (last.existed /\ last.in_ledger)
        /\ ~last.existed => last.action = "wget"

\* the URL was transferred with success before, the ledger holds it, its
\* local file is gone, and wget was run on it again
C4_Witness ==
    /\ Downloaded
    /\ last.succeeded_before
    /\ last.in_ledger
    /\ ~last.existed
    /\ last.action = "wget"

\* C9: every URL in the ledger file of a root was transferred under a root
\* with that ledger file.
C9_LedgerPerRoot ==
    \A f \in DOMAIN downloaded_db :
        \A u \in Range(downloaded_db[f]) :
            \E t \in transfers : t.url = u /\ url_to_file_name(t.major_url) = f

Downloading == pc \in {"load", "download"}

C12_PathFromOwnRoot ==
    Downloaded =>
        last.path = download_url_to_path(get_target_domain(last.major_url),
                                         last.url)

\* C13: every URL whose transfer succeeded in the present run is in the
\* ledger file of its root, at every point after that transfer.
C13_PersistedAfterEachTransfer ==
    \A t \in transfers :
        (t.run = runs /\ t.exit = 0) =>
            /\ url_to_file_name(t.major_url) \in DOMAIN downloaded_db
            /\ t.url \in Range(downloaded_db[url_to_file_name(t.major_url)])

\* between two transfers of one pass: the first URL of the root was
\* transferred with success and the second one is next
C13_Witness ==
    /\ pc = "download"
    /\ k = 2
    /\ Downloaded
    /\ last.action = "wget"
    /\ last.exit = 0
    /\ last.major_url = d_url[d].url

\* C19: no step of a run of the script removes a ledger file or a URL from a
\* ledger file.
C19_LedgerGrows ==
    [][\A f \in DOMAIN downloaded_db :
           /\ f \in DOMAIN downloaded_db'
           /\ Range(downloaded_db[f]) \subseteq Range(downloaded_db'[f])]_vars

\* a ledger file written by an earlier run was written again by the present
\* run, for another root with the same file name and another URL
C19_Witness ==
    \E t1, t2 \in transfers :
        /\ t1.run < t2.run
        /\ t1.major_url # t2.major_url
        /\ url_to_file_name(t1.major_url) = url_to_file_name(t2.major_url)
        /\ t1.url # t2.url
        /\ {t1.url, t2.url} \subseteq
               Range(downloaded_db[url_to_file_name(t1.major_url)])

====
